---- MODULE Spec2Model ----
(***************************************************************************)
(* Model of the two maintenance utilities of the repository:               *)
(*   src/backup_manager.py  (class BackupManager)                          *)
(*   src/file_organizer.py  (class FileOrganizer)                          *)
(* Files are modelled by what the code reads of them: a path, a kind of    *)
(* content, the data it carries and a modification time.  I/O faults are   *)
(* inputs of the operations whose code guards them with try/except.        *)
(***************************************************************************)
EXTENDS Integers, Sequences, FiniteSets, TLC

\* ------------------------------------------------------------------ bounds
MaxTime == 2
MaxContent == 2
MaxFiles == 4
MaxKeepDays == 1
MaxCalls == 1
MaxRestoreCalls == 3
MaxRetentionCalls == 4
MaxSrcFiles == 2
MaxOrgCalls == 2
MaxWrites == 2
MaxNodes == 3
MaxListCalls == 4
MaxBack == 2

VARIABLES now, db, dbSafety, workflowsExists, backupDir, manifests, snapshotOf, last, calls

\* FileOrganizer: the source directory, the output tree, the instance's stats,
\* the index and report documents, the last call, and the bounds' counters.
VARIABLES source, tree, stats, indexes, report, olast, ocalls, writes

\* analyze_workflow on its own: the document given and the metadata returned.
VARIABLES doc, analysed

bvars == <<now, db, dbSafety, workflowsExists, backupDir, manifests, snapshotOf, last, calls>>
ovars == <<source, tree, stats, indexes, report, olast, ocalls, writes>>
avars == <<doc, analysed>>
vars == <<bvars, ovars, avars>>

\* ------------------------------------------------------------------ paths
\* A path of the backup directory: "<stem>_<timestamp>.<ext1>.<ext2>...".
MkPath(stem, ts, ext) == [stem |-> stem, ts |-> ts, ext |-> ext]

\* Python's None where a path is expected.
NoPath == MkPath("None", 0, <<>>)

\* pathlib.PurePath.with_suffix: the last suffix is replaced by sfx.
WithSuffix(p, sfx) ==
  [p EXCEPT !.ext = (IF Len(p.ext) = 0 THEN <<>> ELSE SubSeq(p.ext, 1, Len(p.ext) - 1)) \o sfx]

\* pathlib.PurePath.suffix: the last suffix, "" when there is none.
Suffix(p) == IF Len(p.ext) = 0 THEN "" ELSE p.ext[Len(p.ext)]

\* shutil.make_archive(base_name, 'gztar', ...): the archive is base_name + ".tar.gz".
MakeArchiveName(base) == [base EXCEPT !.ext = base.ext \o <<"tar", "gz">>]

\* create_timestamp: the clock, formatted to the timestamp's resolution.
create_timestamp == now

\* ------------------------------------------------------------------ contents
File(kind, data, mtime) == [kind |-> kind, data |-> data, mtime |-> mtime]
Body(kind, data) == [kind |-> kind, data |-> data]

Absent == Body("absent", 0)
\* An empty file: what open(path, 'wb') leaves before the first write.
\* SQLite reads a zero-length file as an empty database.
Empty == Body("sqlite", 0)
Partial == Body("partial", 0)

Exists(b) == b.kind # "absent"

\* sqlite3 can open the file as a database.
IsDatabase(b) == b.kind = "sqlite"

\* gzip.open(..., 'wb') + copyfileobj
Gzip(b) == Body("gz:" \o b.kind, b.data)

\* gzip.open(..., 'rb') reads a gzip stream back; anything else raises.
CanGunzip(b) == b.kind \in {"gz:sqlite", "gz:tar"}
Gunzip(b) == IF b.kind = "gz:sqlite" THEN Body("sqlite", b.data) ELSE Body("tar", b.data)

BodyOf(f) == Body(f.kind, f.data)

\* ------------------------------------------------------------------ results
\* The record of the last call, kept while nothing has happened since: its
\* name, its arguments, the faults injected and what it returned.  ret is
\* <<>> for None and <<v>> for a value v.
NoCall ==
  [op |-> "none", arg |-> NoPath, keep |-> 0, fault |-> {}, locked |-> {},
   path |-> NoPath, ok |-> FALSE, ret |-> <<>>, printed |-> 0,
   full |-> [database |-> NoPath, workflows |-> NoPath, config |-> NoPath, manifest |-> NoPath]]

Put(dir, p, f) == (p :> f) @@ dir
Remove(dir, ps) == [q \in (DOMAIN dir) \ ps |-> dir[q]]


\* ------------------------------------------------------------------ BackupManager
DbFaults == {"none", "copy", "compress"}

\* backup_database: NoPath when the database is absent or a step raises;
\* otherwise the compressed snapshot is written and its path returned.
\* fault names the step that raises; leftover says whether a SQLite copy
\* that raised part-way had already created the intermediate file.  A source
\* that is no database raises after the (empty) intermediate file is created.
BackupDatabaseResult(dir, dbv, ts, fault, leftover) ==
  LET backup_path == MkPath("workflows_db", ts, <<"db">>)
      compressed_path == WithSuffix(backup_path, <<"db", "gz">>)
      destBroken == backup_path \in DOMAIN dir /\ ~IsDatabase(BodyOf(dir[backup_path]))
  IN  IF ~Exists(dbv) THEN [dir |-> dir, path |-> NoPath]
      ELSE IF destBroken THEN [dir |-> dir, path |-> NoPath]
      ELSE IF ~IsDatabase(dbv)
        THEN [dir |-> Put(dir, backup_path, File(Empty.kind, Empty.data, ts)), path |-> NoPath]
      ELSE IF fault = "copy"
        THEN [dir |-> IF leftover THEN Put(dir, backup_path, File("partial", 0, ts)) ELSE dir,
              path |-> NoPath]
      ELSE IF fault = "compress"
        THEN [dir |-> Put(Put(dir, backup_path, File("sqlite", dbv.data, ts)),
                          compressed_path, File("partial", 0, ts)),
              path |-> NoPath]
      ELSE [dir |-> Put(Remove(dir, {backup_path}), compressed_path,
                        File(Gzip(dbv).kind, Gzip(dbv).data, ts)),
            path |-> compressed_path]

\* backup_workflows: the archive is made at make_archive's name; the path
\* returned is backup_path.
BackupWorkflowsResult(dir, wfExists, ts, fault) ==
  LET backup_path == MkPath("workflows_files", ts, <<"tar", "gz">>)
      archive == MakeArchiveName(WithSuffix(backup_path, <<>>))
  IN  IF ~wfExists THEN [dir |-> dir, path |-> NoPath]
      ELSE IF fault THEN [dir |-> dir, path |-> NoPath]
      ELSE [dir |-> Put(dir, archive, File("gz:tar", 0, ts)), path |-> backup_path]

\* backup_config: one JSON snapshot of the allow-listed files that exist.
BackupConfigResult(dir, ts, fault) ==
  LET config_backup == MkPath("config", ts, <<"json">>)
  IN  IF fault THEN [dir |-> dir, path |-> NoPath]
      ELSE [dir |-> Put(dir, config_backup, File("json", 0, ts)), path |-> config_backup]

\* get_backup_stats: the keys of the stats dictionary.
get_backup_stats(dbv, wfExists, fault) ==
  (IF ~Exists(dbv) THEN {}
   ELSE IF fault \/ ~IsDatabase(dbv) THEN {"database_error"}
   ELSE {"total_workflows", "active_workflows"})
  \cup (IF wfExists THEN {"workflow_files", "total_size_mb"} ELSE {})

NoManifest == [components |-> [database |-> NoPath, workflows |-> NoPath, config |-> NoPath],
               stats |-> {}]

\* A full backup that gives up, manifest unwritten, when the workflows
\* backup is skipped.
FullBackupResultAbortOnSkip(dir, dbv, wfExists, ts, fd, leftover, fw, fc, fs, fm) ==
  LET r1 == BackupDatabaseResult(dir, dbv, ts, fd, leftover)
      r2 == BackupWorkflowsResult(r1.dir, wfExists, ts, fw)
      r3 == BackupConfigResult(r2.dir, ts, fc)
      results == [database |-> r1.path, workflows |-> r2.path, config |-> r3.path]
      manifest_path == MkPath("backup_manifest", ts, <<"json">>)
      manifest == [components |-> results, stats |-> get_backup_stats(dbv, wfExists, fs)]
  IN  IF fm \/ r2.path = NoPath
        THEN [dir |-> r3.dir, results |-> results, manifest_path |-> NoPath,
              manifest |-> NoManifest]
        ELSE [dir |-> Put(r3.dir, manifest_path, File("json", 0, ts)), results |-> results,
              manifest_path |-> manifest_path, manifest |-> manifest]

\* create_full_backup: the three sub-backups in order, the stats, the manifest.
FullBackupResult(dir, dbv, wfExists, ts, fd, leftover, fw, fc, fs, fm) ==
  LET r1 == BackupDatabaseResult(dir, dbv, ts, fd, leftover)
      r2 == BackupWorkflowsResult(r1.dir, wfExists, ts, fw)
      r3 == BackupConfigResult(r2.dir, ts, fc)
      results == [database |-> r1.path, workflows |-> r2.path, config |-> r3.path]
      manifest_path == MkPath("backup_manifest", ts, <<"json">>)
      manifest == [components |-> results, stats |-> get_backup_stats(dbv, wfExists, fs)]
  IN  IF fm
        THEN [dir |-> r3.dir, results |-> results, manifest_path |-> NoPath,
              manifest |-> NoManifest]
        ELSE [dir |-> Put(r3.dir, manifest_path, File("json", 0, ts)), results |-> results,
              manifest_path |-> manifest_path, manifest |-> manifest]

\* cleanup_old_backups: the files unlinked.  locked are the files whose
\* unlink raises.
\* Times are counted in days.
CutoffDate(t, keep_days) == t - keep_days

\* A cleanup whose loop is left by the first unlink that raises.
CleanupRemovedStopsAtFailure(dir, t, keep_days, locked) ==
  LET old == {f \in DOMAIN dir : dir[f].mtime < CutoffDate(t, keep_days)}
  IN  IF old \cap locked # {} THEN {} ELSE old

\* A cleanup that also takes the files exactly as old as the cutoff.
CleanupRemovedInclusive(dir, t, keep_days, locked) ==
  {f \in DOMAIN dir : dir[f].mtime <= CutoffDate(t, keep_days) /\ f \notin locked}

CleanupRemoved(dir, t, keep_days, locked) ==
  {f \in DOMAIN dir : dir[f].mtime < CutoffDate(t, keep_days) /\ f \notin locked}

\* What cleanup_old_backups hands back to its caller: nothing.
CleanupReturn(removed_count) == <<>>

\* list_backups.  The local time zone: the wall clock runs ahead of the file
\* times by a fixed offset, and at the instant `at` it is set back by `back`
\* (the end of daylight saving time); back = 0 is a zone with no such change.
\* The model's clock counts whole ticks, so the change is drawn in ticks.
Zones == {[at |-> a, back |-> b] : a \in 0..MaxTime, b \in 0..MaxBack}

\* datetime.datetime.fromtimestamp(st_mtime): the naive local wall-clock time.
fromtimestamp(mtime, zone) == mtime + MaxBack - (IF mtime >= zone.at THEN zone.back ELSE 0)

\* datetime.isoformat(): fixed-width, zero-padded decimal fields, most
\* significant first.
isoformat(wall) == <<wall \div 10, wall % 10>>

\* Python's < on strings: lexicographic, a proper prefix is smaller.
RECURSIVE StrLess(_, _)
StrLess(a, b) ==
  IF b = <<>> THEN FALSE
  ELSE IF a = <<>> THEN TRUE
  ELSE IF Head(a) # Head(b) THEN Head(a) < Head(b)
  ELSE StrLess(Tail(a), Tail(b))

\* get_backup_type, on the names the manager gives its files.
get_backup_type(filename) ==
  IF filename.stem = "workflows_db" THEN "database"
  ELSE IF filename.stem = "workflows_files" THEN "workflows"
  ELSE IF filename.stem = "config" THEN "configuration"
  ELSE IF filename.stem = "backup_manifest" THEN "manifest"
  ELSE "unknown"

\* backup_info of one file.
BackupInfo(dir, backup_file, zone) ==
  [name |-> backup_file,
   created |-> isoformat(fromtimestamp(dir[backup_file].mtime, zone)),
   type |-> get_backup_type(backup_file)]

\* sorted(backups, key=created, reverse=True): stable, so entries of equal
\* key keep the order they were appended in.
InsertDescending(sorted, x) ==
  LET k == Cardinality({i \in 1..Len(sorted) : ~StrLess(sorted[i].created, x.created)})
  IN  SubSeq(sorted, 1, k) \o <<x>> \o SubSeq(sorted, k + 1, Len(sorted))

RECURSIVE SortedReverse(_, _)
SortedReverse(sorted, backups) ==
  IF backups = <<>> THEN sorted
  ELSE SortedReverse(InsertDescending(sorted, Head(backups)), Tail(backups))

\* The files of the backup directory in an order glob("*") can yield them.
GlobOrders(dir) ==
  {o \in [1..Cardinality(DOMAIN dir) -> DOMAIN dir] :
     \A i, j \in DOMAIN o : i # j => o[i] # o[j]}

ListBackupsResult(dir, order, zone) ==
  SortedReverse(<<>>, [i \in DOMAIN order |-> BackupInfo(dir, order[i], zone)])

RestoreFaults == {"none", "safety", "write"}

\* A restore that never decompresses: the backup's bytes are copied as they are.
RestoreResultNoGunzip(dbv, safety, content, suffix, fault, torn) ==
  IF Exists(dbv) /\ fault = "safety"
    THEN [db |-> dbv, safety |-> IF torn = "unchanged" THEN safety ELSE Partial, ok |-> FALSE]
  ELSE
    LET safety2 == IF Exists(dbv) THEN dbv ELSE safety
    IN  IF fault = "write"
          THEN [db |-> IF torn = "unchanged" THEN dbv
                       ELSE IF torn = "empty" THEN Empty ELSE Partial,
                safety |-> safety2, ok |-> FALSE]
        ELSE [db |-> content, safety |-> safety2, ok |-> TRUE]

\* A restore whose safety copy is best-effort: its failure is swallowed and
\* the backup is written over the live database all the same.
RestoreResultBestEffort(dbv, safety, content, suffix, fault, torn) ==
  LET safety2 == IF ~Exists(dbv) THEN safety
                 ELSE IF fault = "safety"
                   THEN (IF torn = "unchanged" THEN safety ELSE Partial)
                 ELSE dbv
  IN  IF fault = "write"
        THEN [db |-> IF torn = "unchanged" THEN dbv
                     ELSE IF torn = "empty" THEN Empty ELSE Partial,
              safety |-> safety2, ok |-> FALSE]
      ELSE IF suffix = "gz"
        THEN IF CanGunzip(content)
               THEN [db |-> Gunzip(content), safety |-> safety2, ok |-> TRUE]
               ELSE [db |-> IF content.kind = "partial" THEN Partial ELSE Empty,
                     safety |-> safety2, ok |-> FALSE]
      ELSE [db |-> content, safety |-> safety2, ok |-> TRUE]

\* A restore that makes no safety copy of the live database.
RestoreResultNoSafetyCopy(dbv, safety, content, suffix, fault, torn) ==
  IF Exists(dbv) /\ fault = "safety"
    THEN [db |-> dbv, safety |-> safety, ok |-> FALSE]
  ELSE IF fault = "write"
    THEN [db |-> IF torn = "unchanged" THEN dbv
                 ELSE IF torn = "empty" THEN Empty ELSE Partial,
          safety |-> safety, ok |-> FALSE]
  ELSE IF suffix = "gz"
    THEN IF CanGunzip(content)
           THEN [db |-> Gunzip(content), safety |-> safety, ok |-> TRUE]
           ELSE [db |-> IF content.kind = "partial" THEN Partial ELSE Empty,
                 safety |-> safety, ok |-> FALSE]
  ELSE [db |-> content, safety |-> safety, ok |-> TRUE]

\* restore_database, after the existence check of the backup file.
\* fault names the copy that raises; torn is what a copy that raised has
\* left of its destination; it is among the outcomes the file system allows.
RestoreResult(dbv, safety, content, suffix, fault, torn) ==
  IF Exists(dbv) /\ fault = "safety"
    THEN [db |-> dbv, safety |-> IF torn = "unchanged" THEN safety ELSE Partial, ok |-> FALSE]
  ELSE
    LET safety2 == IF Exists(dbv) THEN dbv ELSE safety
    IN  IF fault = "write"
          THEN [db |-> IF torn = "unchanged" THEN dbv
                       ELSE IF torn = "empty" THEN Empty ELSE Partial,
                safety |-> safety2, ok |-> FALSE]
        ELSE IF suffix = "gz"
          THEN IF CanGunzip(content)
                 THEN [db |-> Gunzip(content), safety |-> safety2, ok |-> TRUE]
                 ELSE [db |-> IF content.kind = "partial" THEN Partial ELSE Empty,
                       safety |-> safety2, ok |-> FALSE]
        ELSE [db |-> content, safety |-> safety2, ok |-> TRUE]


\* ------------------------------------------------------------------ actions
EmptyDir == [q \in {} |-> File("absent", 0, 0)]

\* The clock advances.
Tick ==
  /\ now < MaxTime
  /\ now' = now + 1
  /\ last' = NoCall
  /\ UNCHANGED <<db, dbSafety, workflowsExists, backupDir, manifests, snapshotOf>>

\* The platform changes the live database (or it is removed).
WriteDb ==
  /\ \E b \in {Absent} \cup {Body("sqlite", d) : d \in 1..MaxContent} :
       /\ b # db
       /\ db' = b
  /\ last' = NoCall
  /\ UNCHANGED <<now, dbSafety, workflowsExists, backupDir, manifests, snapshotOf>>

\* The workflow directory is created or removed.
SetWorkflowsDir ==
  /\ workflowsExists' = ~workflowsExists
  /\ last' = NoCall
  /\ UNCHANGED <<now, db, dbSafety, backupDir, manifests, snapshotOf>>

\* snapshotOf[p] = D: p was returned by a successful backup_database of a
\* database holding D, and the file at p has not been touched since.
Snapshot(snap, dir, dir2, path, dbv) ==
  LET kept == {q \in DOMAIN snap : q \in DOMAIN dir2 /\ dir2[q] = dir[q]}
      old == [q \in kept |-> snap[q]]
  IN  IF path = NoPath THEN old ELSE (path :> dbv.data) @@ old

backup_database ==
  \E fault \in DbFaults, leftover \in BOOLEAN :
    LET r == BackupDatabaseResult(backupDir, db, create_timestamp, fault, leftover)
    IN  /\ (fault # "none" => IsDatabase(db))
        /\ (leftover => fault = "copy")
        /\ Cardinality(DOMAIN r.dir) <= MaxFiles
        /\ backupDir' = r.dir
        /\ snapshotOf' = Snapshot(snapshotOf, backupDir, r.dir, r.path, db)
        /\ last' = [NoCall EXCEPT !.op = "backup_database", !.fault = {fault} \ {"none"},
                                  !.path = r.path]
        /\ UNCHANGED <<now, db, dbSafety, workflowsExists, manifests>>

backup_workflows ==
  \E fault \in BOOLEAN :
    LET r == BackupWorkflowsResult(backupDir, workflowsExists, create_timestamp, fault)
    IN  /\ (fault => workflowsExists)
        /\ Cardinality(DOMAIN r.dir) <= MaxFiles
        /\ backupDir' = r.dir
        /\ last' = [NoCall EXCEPT !.op = "backup_workflows",
                                  !.fault = IF fault THEN {"archive"} ELSE {},
                                  !.path = r.path]
        /\ UNCHANGED <<now, db, dbSafety, workflowsExists, manifests, snapshotOf>>

backup_config ==
  \E fault \in BOOLEAN :
    LET r == BackupConfigResult(backupDir, create_timestamp, fault)
    IN  /\ Cardinality(DOMAIN r.dir) <= MaxFiles
        /\ backupDir' = r.dir
        /\ last' = [NoCall EXCEPT !.op = "backup_config",
                                  !.fault = IF fault THEN {"config"} ELSE {},
                                  !.path = r.path]
        /\ UNCHANGED <<now, db, dbSafety, workflowsExists, manifests, snapshotOf>>

create_full_backup ==
  \E fd \in DbFaults, leftover, fw, fc, fs, fm \in BOOLEAN :
    LET r == FullBackupResult(backupDir, db, workflowsExists, create_timestamp,
                              fd, leftover, fw, fc, fs, fm)
    IN  /\ (fd # "none" => IsDatabase(db))
        /\ (leftover => fd = "copy")
        /\ (fw => workflowsExists)
        /\ (fs => IsDatabase(db))
        /\ Cardinality(DOMAIN r.dir) <= MaxFiles
        /\ backupDir' = r.dir
        /\ snapshotOf' = Snapshot(snapshotOf, backupDir, r.dir, r.results.database, db)
        /\ manifests' = IF r.manifest_path = NoPath THEN manifests
                        ELSE (r.manifest_path :> r.manifest) @@ manifests
        /\ last' = [NoCall EXCEPT
                      !.op = "create_full_backup",
                      !.fault = ({fd} \ {"none"}) \cup (IF fw THEN {"archive"} ELSE {})
                                \cup (IF fc THEN {"config"} ELSE {})
                                \cup (IF fs THEN {"stats"} ELSE {})
                                \cup (IF fm THEN {"manifest"} ELSE {}),
                      !.ok = TRUE,
                      !.full = [database |-> r.results.database,
                                workflows |-> r.results.workflows,
                                config |-> r.results.config,
                                manifest |-> r.manifest_path]]
        /\ UNCHANGED <<now, db, dbSafety, workflowsExists>>

cleanup_old_backups ==
  \E keep_days \in 0..MaxKeepDays, locked \in SUBSET (DOMAIN backupDir) :
    LET removed == CleanupRemoved(backupDir, now, keep_days, locked)
    IN  /\ backupDir' = Remove(backupDir, removed)
        /\ last' = [NoCall EXCEPT !.op = "cleanup_old_backups", !.keep = keep_days,
                                  !.locked = locked, !.printed = Cardinality(removed),
                                  !.ret = CleanupReturn(Cardinality(removed))]
        /\ snapshotOf' = Snapshot(snapshotOf, backupDir, backupDir', NoPath, db)
        /\ UNCHANGED <<now, db, dbSafety, workflowsExists, manifests>>

\* list_backups: every file of the backup directory (all its entries are
\* regular files), sorted on 'created', newest first.
list_backups ==
  \E zone \in Zones, order \in GlobOrders(backupDir) :
    /\ last' = [NoCall EXCEPT !.op = "list_backups",
                              !.ret = <<ListBackupsResult(backupDir, order, zone)>>]
    /\ UNCHANGED <<now, db, dbSafety, workflowsExists, backupDir, manifests, snapshotOf>>

\* The paths restore_database is called with: the files of the backup
\* directory, the paths earlier backups returned, and one that never existed.
RestoreArgs ==
  (DOMAIN backupDir) \cup (DOMAIN snapshotOf)
    \cup ({last.path} \ {NoPath}) \cup {MkPath("missing", 0, <<"db", "gz">>)}

restore_database ==
  \E backup_path \in RestoreArgs, fault \in RestoreFaults,
     torn \in {"unchanged", "empty", "partial"} :
    IF backup_path \notin DOMAIN backupDir
      THEN /\ fault = "none" /\ torn = "unchanged"
           /\ last' = [NoCall EXCEPT !.op = "restore_database", !.arg = backup_path,
                                     !.ok = FALSE, !.ret = <<FALSE>>]
           /\ UNCHANGED <<now, db, dbSafety, workflowsExists, backupDir, manifests, snapshotOf>>
      ELSE LET r == RestoreResult(db, dbSafety, BodyOf(backupDir[backup_path]),
                                  Suffix(backup_path), fault, torn)
           IN  /\ (fault = "none" => torn = "unchanged")
               /\ (fault = "safety" => Exists(db) /\ torn # "empty")
               /\ db' = r.db
               /\ dbSafety' = r.safety
               /\ last' = [NoCall EXCEPT !.op = "restore_database", !.arg = backup_path,
                                         !.fault = {fault} \ {"none"},
                                         !.ok = r.ok, !.ret = <<r.ok>>]
               /\ UNCHANGED <<now, workflowsExists, backupDir, manifests, snapshotOf>>

\* ------------------------------------------------------------------ FileOrganizer: strings
\* A node type is a string, modelled as the sequence of the pieces it is
\* written with: "dr.x-nodes-base.slackTrigger" is <<Prefix, "slack", "Trigger">>.
\* The keywords the code looks for are pieces, and no keyword occurs inside
\* another piece or across two pieces of the types below.  The type
\* <<Prefix, "github", "Webhook">> carries keywords of two groups.
Prefix == "dr.x-nodes-base."

NodeTypes ==
  { <<Prefix, "slack">>, <<Prefix, "slack", "Trigger">>, <<Prefix, "github">>,
    <<Prefix, "webhook">>, <<Prefix, "schedule", "Trigger">>, <<Prefix, "cron">>,
    <<Prefix, "manual", "Trigger">>, <<Prefix, "http", "Request">>,
    <<"n8n-nodes-base", ".", "airtable">>, <<Prefix, "set">>,
    <<Prefix, "github", "Webhook">> }

\* str.lower, piece by piece.
LowerPiece(t) ==
  CASE t = "Trigger" -> "trigger"
    [] t = "Request" -> "request"
    [] t = "Slack" -> "slack"
    [] t = "GitHub" -> "github"
    [] t = "Airtable" -> "airtable"
    [] t = "N8N-Nodes-Base" -> "n8n-nodes-base"
    [] t = "Webhook" -> "webhook"
    [] t = "Scheduled" -> "scheduled"
    [] t = "Triggered" -> "triggered"
    [] t = "Manual" -> "manual"
    [] t = "Set" -> "set"
    [] t = "Http" -> "http"
    [] t = "Cron" -> "cron"
    [] t = "Schedule" -> "schedule"
    [] OTHER -> t

Lower(str) == [i \in 1..Len(str) |-> LowerPiece(str[i])]

\* str.title: a letter after a non-letter is upper-cased, any other lower-cased.
TitlePiece(t) ==
  CASE t = "airtable" -> "Airtable"
    [] t = "n8n-nodes-base" -> "N8N-Nodes-Base"
    [] t = "set" -> "Set"
    [] t = "http" -> "Http"
    [] t = "cron" -> "Cron"
    [] t = "schedule" -> "Schedule"
    [] t = "webhook" -> "Webhook"
    [] t = "manual" -> "Manual"
    [] t = "slack" -> "Slack"
    [] t = "github" -> "Github"
    [] OTHER -> t

Title(str) ==
  [i \in 1..Len(str) |->
     IF i = 1 \/ str[i - 1] \in {".", "-", "_", " "} THEN TitlePiece(str[i])
     ELSE LowerPiece(str[i])]

\* `kw in s`
Contains(str, kw) == \E i \in 1..Len(str) : str[i] = kw

ContainsAny(str, kws) == \E kw \in kws : Contains(str, kw)

\* str.replace(old, new) for a one-piece old.
RECURSIVE Replace(_, _, _)
Replace(str, old, new) ==
  IF str = <<>> THEN <<>>
  ELSE (IF Head(str) = old THEN new ELSE <<Head(str)>>) \o Replace(Tail(str), old, new)

\* ------------------------------------------------------------------ FileOrganizer: analysis
\* service_mappings, in the order of the dictionary.
ServiceMappings ==
  << <<"telegram", "Telegram">>, <<"discord", "Discord">>, <<"slack", "Slack">>,
     <<"whatsapp", "WhatsApp">>, <<"gmail", "Gmail">>, <<"postgres", "PostgreSQL">>,
     <<"mysql", "MySQL">>, <<"mongodb", "MongoDB">>, <<"openai", "OpenAI">>,
     <<"github", "GitHub">>, <<"gitlab", "GitLab">>, <<"jira", "Jira">> >>

extract_service_name(node_type) ==
  LET hits == {k \in 1..Len(ServiceMappings) : Contains(Lower(node_type), ServiceMappings[k][1])}
  IN  IF hits # {}
        THEN <<ServiceMappings[CHOOSE k \in hits : \A j \in hits : k <= j][2]>>
        ELSE Title(Replace(node_type, Prefix, <<>>))

\* The keyword groups of the elif chain, in its order; the last adds no integration.
CategoryGroups ==
  << [kws |-> {"telegram", "discord", "slack", "whatsapp"}, cat |-> "messaging", named |-> TRUE],
     [kws |-> {"postgres", "mysql", "mongodb", "airtable"}, cat |-> "database", named |-> TRUE],
     [kws |-> {"openai", "anthropic", "huggingface"}, cat |-> "ai_ml", named |-> TRUE],
     [kws |-> {"gmail", "mailjet", "outlook"}, cat |-> "email", named |-> TRUE],
     [kws |-> {"googledrive", "dropbox", "onedrive"}, cat |-> "storage", named |-> TRUE],
     [kws |-> {"github", "gitlab", "jira"}, cat |-> "development", named |-> TRUE],
     [kws |-> {"http", "webhook", "api"}, cat |-> "api", named |-> FALSE] >>

\* A chain in which the last matching branch is taken instead of the first.
GroupOfLastMatch(node_type) ==
  LET hits == {k \in 1..Len(CategoryGroups) : ContainsAny(node_type, CategoryGroups[k].kws)}
  IN  IF hits = {} THEN 0 ELSE CHOOSE k \in hits : \A j \in hits : k >= j

\* The branch of the chain a (lower-cased) node type takes, 0 for none.
GroupOf(node_type) ==
  LET hits == {k \in 1..Len(CategoryGroups) : ContainsAny(node_type, CategoryGroups[k].kws)}
  IN  IF hits = {} THEN 0 ELSE CHOOSE k \in hits : \A j \in hits : k <= j

\* A trigger resolution in which a generic trigger node always sets Triggered.
TriggerStepUnguarded(trigger_type, node_type) ==
  IF Contains(node_type, "webhook") THEN "Webhook"
  ELSE IF Contains(node_type, "cron") \/ Contains(node_type, "schedule") THEN "Scheduled"
  ELSE IF Contains(node_type, "trigger") THEN "Triggered"
  ELSE trigger_type

\* One node's effect on trigger_type.
TriggerStep(trigger_type, node_type) ==
  IF Contains(node_type, "webhook") THEN "Webhook"
  ELSE IF Contains(node_type, "cron") \/ Contains(node_type, "schedule") THEN "Scheduled"
  ELSE IF Contains(node_type, "trigger") /\ trigger_type = "Manual" THEN "Triggered"
  ELSE trigger_type

\* The loop over the nodes, in document order.
RECURSIVE TriggerOf(_, _)
TriggerOf(trigger_type, nodes) ==
  IF nodes = <<>> THEN trigger_type
  ELSE TriggerOf(TriggerStep(trigger_type, Lower(Head(nodes))), Tail(nodes))

CategoriesOf(nodes) ==
  {CategoryGroups[GroupOf(Lower(nodes[i]))].cat :
     i \in {j \in 1..Len(nodes) : GroupOf(Lower(nodes[j])) # 0}}

IntegrationsOf(nodes) ==
  {extract_service_name(Lower(nodes[i])) :
     i \in {j \in 1..Len(nodes) :
              GroupOf(Lower(nodes[j])) # 0 /\ CategoryGroups[GroupOf(Lower(nodes[j]))].named}}

LowMax == 5
MediumMax == 15

ComplexityOf(node_count) ==
  IF node_count <= LowMax THEN "low"
  ELSE IF node_count <= MediumMax THEN "medium"
  ELSE "high"

\* File contents: a workflow document with its nodes' types; text that is
\* not JSON (or not UTF-8); JSON whose top level is not an object.
Workflow(nodes) == [kind |-> "workflow", nodes |-> nodes]
Malformed == [kind |-> "malformed", nodes |-> <<>>]
NotObject == [kind |-> "notobject", nodes |-> <<>>]
NoFile == [kind |-> "absent", nodes |-> <<>>]

NoMetadata ==
  [status |-> "none", node_count |-> 0, trigger_type |-> "Manual",
   integrations |-> {}, categories |-> {}, complexity |-> "low"]

\* analyze_workflow: status "ok" with the metadata, "none" for the None it
\* returns on a parse error, "raised" when an exception leaves it.
analyze_workflow(content) ==
  IF content.kind = "malformed" THEN NoMetadata
  ELSE IF content.kind = "notobject" THEN [NoMetadata EXCEPT !.status = "raised"]
  ELSE [status |-> "ok",
        node_count |-> Len(content.nodes),
        trigger_type |-> TriggerOf("Manual", content.nodes),
        integrations |-> IntegrationsOf(content.nodes),
        categories |-> CategoriesOf(content.nodes),
        complexity |-> ComplexityOf(Len(content.nodes))]


\* ------------------------------------------------------------------ FileOrganizer: organizing
SrcFiles == 1..MaxSrcFiles

Axes == <<"by_category", "by_complexity", "by_trigger", "by_integration">>

\* safe_name of organize_by_integration.
SafeName(integration) == Replace(Replace(Lower(integration), " ", <<"_">>), ".", <<"_">>)

\* A placement that copies a file into one of its categories only.
BucketsOfOneCategory(axis, metadata) ==
  CASE axis = "by_category" ->
         IF metadata.categories = {} THEN {<<"uncategorized">>}
         ELSE {<<CHOOSE c \in metadata.categories : TRUE>>}
    [] axis = "by_complexity" -> {<<metadata.complexity>>}
    [] axis = "by_trigger" -> {Replace(Lower(<<metadata.trigger_type>>), " ", <<"_">>)}
    [] axis = "by_integration" ->
         IF metadata.integrations = {} THEN {<<"no_integration">>}
         ELSE {SafeName(i) : i \in metadata.integrations}

\* The leaf directories one pass copies a file into.
BucketsOf(axis, metadata) ==
  CASE axis = "by_category" ->
         IF metadata.categories = {} THEN {<<"uncategorized">>}
         ELSE {<<c>> : c \in metadata.categories}
    [] axis = "by_complexity" -> {<<metadata.complexity>>}
    [] axis = "by_trigger" -> {Replace(Lower(<<metadata.trigger_type>>), " ", <<"_">>)}
    [] axis = "by_integration" ->
         IF metadata.integrations = {} THEN {<<"no_integration">>}
         ELSE {SafeName(i) : i \in metadata.integrations}

\* How often the pass increments the counter of a bucket for one file: once
\* for each value of the file that names the bucket.
Increments(axis, metadata, bucket) ==
  IF axis = "by_integration" /\ metadata.integrations # {}
    THEN Cardinality({i \in metadata.integrations : SafeName(i) = bucket})
    ELSE 1

Count(st, key) == IF key \in DOMAIN st THEN st[key] ELSE 0

\* One iteration of a pass's loop for a file that analysed.
PlaceFile(axis, f, content, metadata, tr, st) ==
  LET bs == BucketsOf(axis, metadata)
      keys == {<<axis, b, f>> : b \in bs}
      skeys == {<<axis, b>> : b \in bs}
  IN  [tree |-> [k \in (DOMAIN tr) \cup keys |-> IF k \in keys THEN content ELSE tr[k]],
       stats |-> [k \in (DOMAIN st) \cup skeys |->
                    IF k \in skeys THEN Count(st, k) + Increments(axis, metadata, k[2])
                    ELSE st[k]]]

\* The contents a source file is written with.
Slack == <<Prefix, "slack">>
GitHub == <<Prefix, "github">>
Filler == <<Prefix, "set">>
SourceContents ==
  { Workflow(<<Slack, GitHub>>),
    Workflow(<<<<Prefix, "schedule", "Trigger">>, <<Prefix, "manual", "Trigger">>>>),
    Workflow(<<<<"n8n-nodes-base", ".", "airtable">>>>),
    Workflow(<<<<Prefix, "http", "Request">>>>),
    Workflow(<<Filler, Filler, Filler, Filler, Filler, <<Prefix, "slack", "Trigger">>>>),
    Malformed, NotObject }

\* analyze_workflow of each content the source directory can hold.
Analysis == [c \in SourceContents |-> analyze_workflow(c)]

\* One organize_by_* pass over the files in the order glob yields them.
RECURSIVE OrganizePass(_, _, _, _, _)
OrganizePass(axis, src, order, tr, st) ==
  IF order = <<>> THEN [tree |-> tr, stats |-> st, raised |-> FALSE]
  ELSE LET f == Head(order)
           metadata == Analysis[src[f]]
       IN  IF metadata.status = "raised" THEN [tree |-> tr, stats |-> st, raised |-> TRUE]
           ELSE IF metadata.status = "none" THEN OrganizePass(axis, src, Tail(order), tr, st)
           ELSE LET r == PlaceFile(axis, f, src[f], metadata, tr, st)
                IN  OrganizePass(axis, src, Tail(order), r.tree, r.stats)

\* The passes of `axes`, in order; the first that raises ends the run.
RECURSIVE OrganizePasses(_, _, _, _, _)
OrganizePasses(axes, src, order, tr, st) ==
  IF axes = <<>> THEN [tree |-> tr, stats |-> st, raised |-> FALSE]
  ELSE LET r == OrganizePass(Head(axes), src, order, tr, st)
       IN  IF r.raised THEN r
           ELSE OrganizePasses(Tail(axes), src, order, r.tree, r.stats)

EmptyTree == [k \in {} |-> NoFile]
EmptyStats == [k \in {} |-> 0]

\* An organize_all that does not clear the output root.
KeptTree(tr) == tr

\* What organize_all starts its passes from: shutil.rmtree, then mkdir.
ClearedTree(tr) == EmptyTree

\* create_index_files: for each leaf directory, the number of its workflow files.
IndexOf(tr) ==
  [d \in {<<k[1], k[2]>> : k \in DOMAIN tr} |->
     Cardinality({k \in DOMAIN tr : k[1] = d[1] /\ k[2] = d[2]})]

\* The files glob("*.json") yields, in any order.
Present(src) == {f \in SrcFiles : src[f].kind # "absent"}
Orders(src) ==
  {o \in [1..Cardinality(Present(src)) -> Present(src)] :
     \A i, j \in DOMAIN o : i # j => o[i] # o[j]}

\* olast describes the last call while the source directory is as the call
\* found it.
NoOrgCall == [op |-> "none", raised |-> FALSE]

\* A workflow file is written to, or removed from, the source directory.
WriteSource ==
  /\ writes < MaxWrites
  /\ writes' = writes + 1
  /\ \E f \in SrcFiles, c \in SourceContents \cup {NoFile} :
       /\ c # source[f]
       /\ source' = [source EXCEPT ![f] = c]
  /\ olast' = NoOrgCall
  /\ UNCHANGED <<tree, stats, indexes, report, ocalls>>

\* organize_by_category / _complexity / _trigger / _integration, run alone.
organize_by(axis) ==
  /\ ocalls < MaxOrgCalls
  /\ ocalls' = ocalls + 1
  /\ \E order \in Orders(source) :
       LET r == OrganizePass(axis, source, order, tree, stats)
       IN  /\ tree' = r.tree
           /\ stats' = r.stats
           /\ olast' = [op |-> axis, raised |-> r.raised]
  /\ UNCHANGED <<source, indexes, report, writes>>

organize_by_category == organize_by("by_category")
organize_by_complexity == organize_by("by_complexity")
organize_by_trigger == organize_by("by_trigger")
organize_by_integration == organize_by("by_integration")

\* organize_all: clear the output root, the four passes, the index files,
\* the report.  report is <<>> while there is none, <<stats>> once written.
organize_all ==
  /\ ocalls < MaxOrgCalls
  /\ ocalls' = ocalls + 1
  /\ \E order \in Orders(source) :
       LET r == OrganizePasses(Axes, source, order, ClearedTree(tree), stats)
       IN  /\ tree' = r.tree
           /\ stats' = r.stats
           /\ indexes' = IF r.raised THEN [d \in {} |-> 0] ELSE IndexOf(r.tree)
           /\ report' = IF r.raised THEN <<>> ELSE <<r.stats>>
           /\ olast' = [op |-> "organize_all", raised |-> r.raised]
  /\ UNCHANGED <<source, writes>>

\* ------------------------------------------------------------------ analysis alone
RECURSIVE SeqsUpTo(_, _)
SeqsUpTo(S, n) ==
  IF n = 0 THEN {<<>>}
  ELSE LET shorter == SeqsUpTo(S, n - 1)
       IN  shorter \cup {Append(q, x) : q \in shorter, x \in S}

Documents == SeqsUpTo(NodeTypes, MaxNodes)

\* analyze_workflow is called on the file.
Analyze ==
  /\ analysed.status = "pending"
  /\ analysed' = analyze_workflow(doc)
  /\ UNCHANGED <<doc, bvars, ovars>>

\* ------------------------------------------------------------------ specifications
\* The tools before their first call.
Init ==
  /\ now = 0
  /\ db = Body("sqlite", 1)
  /\ dbSafety = Absent
  /\ workflowsExists = TRUE
  /\ backupDir = EmptyDir
  /\ manifests = [q \in {} |-> NoManifest]
  /\ snapshotOf = [q \in {} |-> 0]
  /\ last = NoCall
  /\ calls = 0
  /\ source = [f \in SrcFiles |-> NoFile]
  /\ tree = EmptyTree
  /\ stats = EmptyStats
  /\ indexes = [d \in {} |-> 0]
  /\ report = <<>>
  /\ olast = NoOrgCall
  /\ ocalls = 0
  /\ writes = 0
  /\ doc = NoFile
  /\ analysed = NoMetadata

\* The same, with a file about to be analysed: a workflow document, or a
\* file that is none.
InitAnalyze ==
  /\ now = 0
  /\ db = Body("sqlite", 1)
  /\ dbSafety = Absent
  /\ workflowsExists = TRUE
  /\ backupDir = EmptyDir
  /\ manifests = [q \in {} |-> NoManifest]
  /\ snapshotOf = [q \in {} |-> 0]
  /\ last = NoCall
  /\ calls = 0
  /\ source = [f \in SrcFiles |-> NoFile]
  /\ tree = EmptyTree
  /\ stats = EmptyStats
  /\ indexes = [d \in {} |-> 0]
  /\ report = <<>>
  /\ olast = NoOrgCall
  /\ ocalls = 0
  /\ writes = 0
  /\ doc \in {Workflow(nodes) : nodes \in Documents} \cup {Malformed, NotObject}
  /\ analysed = [NoMetadata EXCEPT !.status = "pending"]

\* A step of the environment, and a call of the manager: one run of the
\* command line, counted against the bound n on the calls explored.
Env(A) == A /\ UNCHANGED calls /\ UNCHANGED <<ovars, avars>>
Call(n, A) == calls < n /\ calls' = calls + 1 /\ A /\ UNCHANGED <<ovars, avars>>

\* Producing backups.
BNext ==
  \/ Env(Tick)
  \/ Env(WriteDb)
  \/ Env(SetWorkflowsDir)
  \/ Call(MaxCalls, backup_database)
  \/ Call(MaxCalls, backup_workflows)
  \/ Call(MaxCalls, backup_config)
  \/ Call(MaxCalls, create_full_backup)

Spec == Init /\ [][BNext]_vars

\* Backing the database up and restoring it.
RNext ==
  \/ Env(Tick)
  \/ Env(WriteDb)
  \/ Call(MaxRestoreCalls, backup_database)
  \/ Call(MaxRestoreCalls, backup_workflows)
  \/ Call(MaxRestoreCalls, restore_database)

SpecRestore == Init /\ [][RNext]_vars

\* Retention of the backup directory.
CNext ==
  \/ Env(Tick)
  \/ Call(MaxRetentionCalls, backup_database)
  \/ Call(MaxRetentionCalls, backup_workflows)
  \/ Call(MaxRetentionCalls, backup_config)
  \/ Call(MaxRetentionCalls, cleanup_old_backups)

SpecRetention == Init /\ [][CNext]_vars

\* Listing the backup directory.
LNext ==
  \/ Env(Tick)
  \/ Call(MaxListCalls, backup_database)
  \/ Call(MaxListCalls, backup_workflows)
  \/ Call(MaxListCalls, backup_config)
  \/ Call(MaxListCalls, list_backups)

SpecList == Init /\ [][LNext]_vars

\* Organizing the workflow files.
Org(A) == A /\ UNCHANGED <<bvars, avars>>

ONext ==
  \/ Org(WriteSource)
  \/ Org(organize_by_category)
  \/ Org(organize_by_complexity)
  \/ Org(organize_by_trigger)
  \/ Org(organize_by_integration)
  \/ Org(organize_all)

SpecOrganize == Init /\ [][ONext]_vars

\* organize_all called again and again on one instance.
ReNext ==
  \/ Org(WriteSource)
  \/ Org(organize_all)

SpecReorganize == Init /\ [][ReNext]_vars

\* Analysing documents.
ANext ==
  \/ Analyze

SpecAnalyze == InitAnalyze /\ [][ANext]_vars

\* ------------------------------------------------------------------ claims: BackupManager
\* The last step was a call of op (calls counts the manager's calls).
Called(op) == calls' = calls + 1 /\ last'.op = op

\* C1: round trip.  When restore_database is called with a path that a
\* successful backup_database returned for a database holding D (the file
\* untouched since), whatever the live database has become, and no copy of
\* the restore fails, it returns True and the live database holds D again.
C1_RoundTrip ==
  (last.op = "restore_database" /\ last.arg \in DOMAIN snapshotOf /\ last.fault = {})
    => (last.ok /\ db = Body("sqlite", snapshotOf[last.arg]))

\* The round trip happened on a live database that had changed since the
\* backup: the safety copy holds what the restore found, another content.
C1_Witness ==
  /\ last.op = "restore_database" /\ last.arg \in DOMAIN snapshotOf /\ last.fault = {}
  /\ last.ok /\ db = Body("sqlite", snapshotOf[last.arg])
  /\ IsDatabase(dbSafety) /\ dbSafety # db

\* C2 as stated: a failure of the pre-restore safety copy does not block the
\* restore, which writes the backup over the live database and succeeds.
C2_SafetyFailureDoesNotBlock ==
  (last.op = "restore_database" /\ "safety" \in last.fault)
    => (last.ok /\ db = (IF Suffix(last.arg) = "gz" THEN Gunzip(BodyOf(backupDir[last.arg]))
                         ELSE BodyOf(backupDir[last.arg])))

\* C2 amended: a failure of the pre-restore safety copy aborts the restore:
\* restore_database returns False and the live database is left as it was.
C2_SafetyFailureAborts ==
  [][(Called("restore_database") /\ "safety" \in last'.fault)
       => (~last'.ok /\ last'.ret = <<FALSE>> /\ db' = db)]_vars

C2_Witness ==
  /\ last.op = "restore_database" /\ "safety" \in last.fault
  /\ last.arg \in DOMAIN backupDir /\ CanGunzip(BodyOf(backupDir[last.arg]))
  /\ last.arg \in DOMAIN snapshotOf
  /\ ~last.ok /\ IsDatabase(db)
  /\ db # Gunzip(BodyOf(backupDir[last.arg]))

\* C3: the path backup_workflows returns (and create_full_backup records as
\* the manifest's workflows component) names a file of the backup directory.
C3_ReturnedArchiveExists ==
  /\ (last.op = "backup_workflows" /\ last.path # NoPath) => last.path \in DOMAIN backupDir
  /\ (last.op = "create_full_backup" /\ last.full.workflows # NoPath)
       => last.full.workflows \in DOMAIN backupDir

CopyBlocked ==
  LET backup_path == MkPath("workflows_db", now, <<"db">>)
  IN  backup_path \in DOMAIN backupDir /\ ~IsDatabase(BodyOf(backupDir[backup_path]))

C11_NewestFirst ==
  last.op = "list_backups" =>
    LET backups == last.ret[1]
    IN  /\ Len(backups) = Cardinality(DOMAIN backupDir)
        /\ {backups[i].name : i \in DOMAIN backups} = DOMAIN backupDir
        /\ \A i \in 1..(Len(backups) - 1) :
             backupDir[backups[i].name].mtime >= backupDir[backups[i + 1].name].mtime

\* C14: whenever restore_database is called with a live database holding D
\* and returns False, D is still held by the live database or by the safety
\* copy; and when the backup path does not exist, the live database and the
\* safety copy are left as they were.
C14_FailedRestoreKeepsData ==
  [][(Called("restore_database") /\ last'.ret = <<FALSE>>)
       => /\ Exists(db) => (db' = db \/ dbSafety' = db)
          /\ last'.arg \notin DOMAIN backupDir => (db' = db /\ dbSafety' = dbSafety)]_vars

\* A restore failed after it had begun to write the live database: what the
\* database held is no longer there, and is in the safety copy.
C14_Witness ==
  /\ last.op = "restore_database" /\ last.ret = <<FALSE>>
  /\ last.arg \in DOMAIN backupDir
  /\ ~IsDatabase(db)
  /\ IsDatabase(dbSafety) /\ dbSafety.data >= 1

\* ------------------------------------------------------------------ claims: FileOrganizer
Analysable(f) == source[f].kind # "absent" /\ Analysis[source[f]].status = "ok"
FailsAnalysis(f) == source[f].kind # "absent" /\ Analysis[source[f]].status # "ok"

\* The leaf directories of an axis that hold file f.
BucketsHolding(axis, f) == {k[2] : k \in {q \in DOMAIN tree : q[1] = axis /\ q[3] = f}}

AxesOfCall == IF olast.op = "organize_all" THEN {Axes[i] : i \in 1..Len(Axes)} ELSE {olast.op}

\* C7: with files whose analysis fails among the source files, every
\* organize pass (and organize_all) runs to completion, every analysable
\* file is in its buckets with its content, and organize_all leaves the
\* failing files in no bucket.
C7_FailuresIsolated ==
  (olast.op # "none" /\ \E f \in SrcFiles : FailsAnalysis(f)) =>
    /\ ~olast.raised
    /\ \A f \in SrcFiles : Analysable(f) =>
         \A axis \in AxesOfCall :
           /\ BucketsHolding(axis, f) # {}
           /\ \A b \in BucketsHolding(axis, f) : tree[<<axis, b, f>>] = source[f]
    /\ olast.op = "organize_all" =>
         \A f \in SrcFiles : FailsAnalysis(f) =>
           \A i \in 1..Len(Axes) : BucketsHolding(Axes[i], f) = {}

\* The tree the current source directory determines.
ExpectedTree ==
  LET keys == UNION {{<<Axes[i], b, f>> : b \in BucketsOf(Axes[i], Analysis[source[f]])} :
                       i \in 1..Len(Axes), f \in {g \in SrcFiles : Analysable(g)}}
  IN  [k \in keys |-> source[k[3]]]

\* C8: after organize_all, whatever the output root held before, the tree
\* holds nothing that the current source directory does not put there, and
\* when the run completed it is exactly the tree the source determines (so
\* a second run over unchanged inputs yields the same tree).
C8_TreeDeterminedBySource ==
  olast.op = "organize_all" =>
    /\ \A k \in DOMAIN tree : k \in DOMAIN ExpectedTree /\ tree[k] = ExpectedTree[k]
    /\ ~olast.raised => tree = ExpectedTree

\* organize_all completed on an instance whose earlier run had filled a
\* bucket (it is counted in stats) that the tree no longer has.
C8_Witness ==
  /\ olast.op = "organize_all" /\ ~olast.raised /\ ocalls = 2
  /\ tree # EmptyTree
  /\ \E d \in DOMAIN stats : \A k \in DOMAIN tree : <<k[1], k[2]>> # d

\* C9: after organize_all, each analysed file is under exactly one
\* by_complexity and one by_trigger bucket, under by_category/<c> for exactly
\* its categories (uncategorized when none) and under by_integration/<i> for
\* exactly its sanitized integration names (no_integration when none); a file
\* with a Slack and a GitHub node is in messaging and development, slack and
\* github.
C9_BucketMembership ==
  (olast.op = "organize_all" /\ ~olast.raised) =>
    \A f \in SrcFiles : Analysable(f) =>
      LET m == Analysis[source[f]]
      IN  /\ Cardinality(BucketsHolding("by_complexity", f)) = 1
          /\ Cardinality(BucketsHolding("by_trigger", f)) = 1
          /\ BucketsHolding("by_category", f) =
               (IF m.categories = {} THEN {<<"uncategorized">>}
                ELSE {<<c>> : c \in m.categories})
          /\ BucketsHolding("by_integration", f) =
               (IF m.integrations = {} THEN {<<"no_integration">>}
                ELSE {SafeName(i) : i \in m.integrations})
          /\ source[f] = Workflow(<<Slack, GitHub>>) =>
               /\ BucketsHolding("by_category", f) = {<<"messaging">>, <<"development">>}
               /\ BucketsHolding("by_integration", f) = {<<"slack">>, <<"github">>}

C9_Witness ==
  /\ olast.op = "organize_all" /\ ~olast.raised
  /\ \E f \in SrcFiles :
       /\ source[f] = Workflow(<<Slack, GitHub>>)
       /\ <<"by_category", <<"messaging">>, f>> \in DOMAIN tree
       /\ <<"by_category", <<"development">>, f>> \in DOMAIN tree
       /\ <<"by_integration", <<"slack">>, f>> \in DOMAIN tree
       /\ <<"by_integration", <<"github">>, f>> \in DOMAIN tree
       /\ BucketsHolding("by_complexity", f) = {<<"low">>}
       /\ BucketsHolding("by_trigger", f) = {<<"manual">>}

\* ------------------------------------------------------------------ claims: analysis
\* The nodes whose type contains 'webhook', 'cron' or 'schedule', and those
\* whose type contains 'trigger'.
SettingNodes(nodes) ==
  {i \in 1..Len(nodes) : ContainsAny(Lower(nodes[i]), {"webhook", "cron", "schedule"})}
TriggerNodes(nodes) == {i \in 1..Len(nodes) : Contains(Lower(nodes[i]), "trigger")}

\* C10: if some node type contains 'webhook', 'cron' or 'schedule',
\* trigger_type is what the last such node sets (Webhook if it contains
\* 'webhook', else Scheduled), whatever 'trigger' nodes come before or after;
\* otherwise it is Triggered if some node type contains 'trigger', else Manual.
C10_TriggerResolution ==
  analysed.status = "ok" =>
    LET nodes == doc.nodes
        setting == SettingNodes(nodes)
        lastSetting == CHOOSE i \in setting : \A j \in setting : j <= i
    IN  analysed.trigger_type =
          (IF setting # {}
             THEN (IF Contains(Lower(nodes[lastSetting]), "webhook") THEN "Webhook"
                   ELSE "Scheduled")
           ELSE IF TriggerNodes(nodes) # {} THEN "Triggered"
           ELSE "Manual")

\* A schedule node followed by a generic trigger node resolved to Scheduled.
C10_Witness ==
  /\ analysed.status = "ok" /\ analysed.trigger_type = "Scheduled"
  /\ \E i, j \in 1..Len(doc.nodes) :
       /\ i < j
       /\ Contains(Lower(doc.nodes[i]), "schedule")
       /\ j \in TriggerNodes(doc.nodes) \ SettingNodes(doc.nodes)

\* The fixed order of the category groups, and the groups one of whose
\* keywords occurs in the lower-cased type of a node.
GroupOrder == <<"messaging", "database", "ai_ml", "email", "storage", "development", "api">>
MatchingGroups(node_type) ==
  {k \in 1..Len(GroupOrder) :
     \E g \in 1..Len(CategoryGroups) :
       /\ CategoryGroups[g].cat = GroupOrder[k]
       /\ ContainsAny(Lower(node_type), CategoryGroups[g].kws)}
FirstGroup(node_type) ==
  LET hits == MatchingGroups(node_type)
  IN  GroupOrder[CHOOSE k \in hits : \A j \in hits : k <= j]

\* C12: each node contributes the category of the first group, in the order
\* messaging, database, ai_ml, email, storage, development, api, one of whose
\* keywords occurs in its lower-cased type, and nothing when no group
\* matches; integration names come only from nodes of the groups before api,
\* so a document whose nodes all fall in the api group has categories {api},
\* no integration, and is placed under no_integration.
C12_FirstMatchWins ==
  analysed.status = "ok" =>
    LET nodes == doc.nodes
        contributing == {i \in 1..Len(nodes) : MatchingGroups(nodes[i]) # {}}
        naming == {i \in contributing : FirstGroup(nodes[i]) # "api"}
    IN  /\ analysed.categories = {FirstGroup(nodes[i]) : i \in contributing}
        /\ analysed.integrations = {extract_service_name(Lower(nodes[i])) : i \in naming}
        /\ (contributing # {} /\ naming = {}) =>
             /\ analysed.categories = {"api"}
             /\ analysed.integrations = {}
             /\ BucketsOf("by_integration", analysed) = {<<"no_integration">>}

\* A node carrying keywords of the development and of the api group gave
\* the document the category development alone, and an api node beside it
\* added api and no integration name.
C12_Witness ==
  /\ analysed.status = "ok"
  /\ \E i, j \in 1..Len(doc.nodes) :
       /\ MatchingGroups(doc.nodes[i]) = {6, 7}
       /\ MatchingGroups(doc.nodes[j]) = {7}
  /\ analysed.categories = {"development", "api"}
  /\ analysed.integrations = {<<"GitHub">>}

\* The number of workflow files in a bucket of the output tree.
FilesIn(bucket) == Cardinality({k \in DOMAIN tree : <<k[1], k[2]>> = bucket})

\* C13: after organize_all calls on one instance, the count stats holds (and
\* the report shows) for each bucket is the number of workflow files in that
\* bucket of the output tree.
C13_StatsMatchTree ==
  (olast.op = "organize_all" /\ ~olast.raised) =>
    /\ report = <<stats>>
    /\ \A bucket \in (DOMAIN stats) \cup {<<k[1], k[2]>> : k \in DOMAIN tree} :
         Count(stats, bucket) = FilesIn(bucket)

====
